---- MODULE Spec2Model ----
(***************************************************************************)
(* komoswitch: the subscription session (src/src/komo.rs,                  *)
(* listen_for_workspaces), the snapshot projection, the relevance filter,  *)
(* the boxed hand-off through the window message queue (src/src/msgs.rs)   *)
(* and the consumer's window procedure (src/src/window/mod.rs).            *)
(***************************************************************************)
EXTENDS Integers, Sequences, FiniteSets, TLC

VARIABLES
    pc,             \* position of the session thread in listen_for_workspaces
    buffer,         \* komo.rs:108  the bytes read from the accepted connection
    notification,   \* komo.rs:144  the decoded Notification of this iteration
    new_workspaces, \* komo.rs:163  the projected snapshot of this iteration
    last,           \* outcome of the latest step of the session thread
    retries,        \* failed attempts of the latest retry loop, up to MaxRetries
    nrecv,          \* connections accepted so far
    ndecoded,       \* payloads that decoded to a Notification
    nskipped,       \* payloads skipped by a decode failure
    neligible,      \* read payloads: decodable, relevant, with a focused monitor
    nposts,         \* PostMessage calls made by the session
    npostok,        \* PostMessage calls that succeeded
    nzero,          \* reads that completed Ok(0)
    nreconn,        \* re-registrations that succeeded
    fed,            \* progress of the payload sequence non-UTF8, bad JSON, valid
    heap,           \* boxes made by UpdateWorkspaces::to_wmdmsg, by address
    queue,          \* the window thread's posted-message queue
    workspaces,     \* Window.workspaces, the displayed model
    window,         \* "attached" (USERDATA holds the Window) or "destroyed"
    loop,           \* Window::run_loop: "running" or "exited"
    quit_requested, \* the Quit menu entry has been chosen
    lastHandled,    \* connection number of the snapshot handled last
    invalidated,    \* the window has an update region: a WM_PAINT is due
    consumer,       \* the window thread: in "get_message", in "send_query"
                    \* or in "track_popup_menu"
    self_data,      \* workspaces.rs:10  Workspaces.data, the diffed model
    prev_data,      \* Workspaces.data as it was before the latest call
    snapshot,       \* workspaces.rs:28  the argument of the latest try_update
    returned,       \* workspaces.rs:28  what the latest try_update returned
    called,         \* "none", "new" or "try_update": the latest entry point
    proj_state,     \* komo.rs:27  the State handed to workspaces_from_state
    proj_result,    \* komo.rs:27  what workspaces_from_state returned for it
    proj_done,      \* workspaces_from_state has been applied to proj_state
    filt_event,     \* komo.rs:151  the event handed to the relevance filter
    filt_result,    \* komo.rs:151  the filter's verdict, should_update
    filt_done       \* the filter has been applied to filt_event

vars == <<pc, buffer, notification, new_workspaces, last, retries, nrecv,
          ndecoded, nskipped, neligible, nposts, npostok, nzero, nreconn, fed,
          heap, queue, workspaces, window, loop, quit_requested, lastHandled,
          invalidated, consumer,
          self_data, prev_data, snapshot, returned, called,
          proj_state, proj_result, proj_done,
          filt_event, filt_result, filt_done>>

sessionVars == <<pc, buffer, notification, new_workspaces, last, retries,
                 nrecv, ndecoded, nskipped, neligible, nposts, npostok, nzero,
                 nreconn, fed>>

consumerVars == <<workspaces, window, loop, quit_requested, lastHandled,
                  invalidated, consumer>>

diffVars == <<self_data, prev_data, snapshot, returned, called>>

\* the variables of the stand-alone functions, which the session and the
\* window procedure never touch
projVars == <<proj_state, proj_result, proj_done>>

filtVars == <<filt_event, filt_result, filt_done>>

pureVars == <<diffVars, projVars, filtVars>>

(***************************************************************************)
(* Bounds of the model.                                                    *)
(***************************************************************************)
\* connections the session accepts before the model stops the daemon
MaxConns == 3
\* consecutive failures the model lets one retry loop see
MaxRetries == 2

(***************************************************************************)
(* komo.rs:13-25  WorkspaceState and Workspace.                            *)
(***************************************************************************)
WorkspaceState == {"Empty", "NonEmpty", "Focused"}

Workspace(name, state) == [name |-> name, state |-> state]

(***************************************************************************)
(* The daemon's State as far as the projection reads it: a ring of         *)
(* monitors, each with a ring of workspaces; a workspace has an optional   *)
(* name and a number of contained windows.                                 *)
(***************************************************************************)
None == "<none>"

Ring(elements, focused) == [elements |-> elements, focused |-> focused]

\* Ring::focused(): the element at the focused index, if there is one
RingHasFocused(ring) == ring.focused + 1 <= Len(ring.elements)

RingFocused(ring) == ring.elements[ring.focused + 1]

KWorkspace(name, windows) == [name |-> name, windows |-> windows]

\* Workspace::is_empty()
is_empty(w) == w.windows = 0

Monitor(wsElems, focusedWs) == [workspaces |-> Ring(wsElems, focusedWs)]

DaemonState(monitors, focused) == [monitors |-> Ring(monitors, focused)]

(***************************************************************************)
(* komo.rs:33  (idx + 1).to_string(): the decimal digits of a natural.     *)
(***************************************************************************)
Digit == <<"0", "1", "2", "3", "4", "5", "6", "7", "8", "9">>

RECURSIVE to_string(_)
to_string(n) ==
    IF n < 10 THEN Digit[n + 1]
    ELSE to_string(n \div 10) \o Digit[(n % 10) + 1]

(***************************************************************************)
(* komo.rs:27-49  workspaces_from_state.                                   *)
(***************************************************************************)
Ok(v) == [ok |-> TRUE, value |-> v]

Err == [ok |-> FALSE, value |-> <<>>]

\* the fallback name taken from the 0-based index
workspace_name_ZeroBased(w, idx) ==
    IF w.name = None THEN to_string(idx) ELSE w.name

workspace_name(w, idx) == IF w.name = None THEN to_string(idx + 1) ELSE w.name

\* every slot up to the focused index classified Focused
workspace_state_UpToFocus(w, idx, focused_workspace) ==
    IF idx <= focused_workspace THEN "Focused"
    ELSE IF is_empty(w) THEN "Empty"
    ELSE "NonEmpty"

\* emptiness tested before focus
workspace_state_EmptyFirst(w, idx, focused_workspace) ==
    IF is_empty(w) THEN "Empty"
    ELSE IF focused_workspace = idx THEN "Focused"
    ELSE "NonEmpty"

workspace_state(w, idx, focused_workspace) ==
    IF focused_workspace = idx THEN "Focused"
    ELSE IF is_empty(w) THEN "Empty"
    ELSE "NonEmpty"

workspaces_from_state(state) ==
    IF ~RingHasFocused(state.monitors) THEN Err
    ELSE LET monitor == RingFocused(state.monitors)
             focused_workspace == monitor.workspaces.focused
             ws == monitor.workspaces.elements
         IN Ok([i \in 1..Len(ws) |->
                   Workspace(workspace_name(ws[i], i - 1),
                             workspace_state(ws[i], i - 1, focused_workspace))])

(***************************************************************************)
(* komo.rs:181-224  the relevance filters.                                 *)
(***************************************************************************)
\* the lifecycle filter with its commented-out arms alive
should_update_wme_AllArms(notif) ==
    notif \in {"Cloak", "Uncloak", "Destroy", "FocusChange", "Hide"}

should_update_wme(notif) == notif \in {"Cloak", "Uncloak", "Destroy"}

should_update_sm(notif) ==
    notif \in {"FocusWorkspaceNumber", "FocusMonitorNumber",
               "FocusMonitorWorkspaceNumber", "FocusNamedWorkspace",
               "FocusWorkspaceNumbers", "CycleFocusMonitor",
               "CycleFocusWorkspace", "ReloadConfiguration",
               "ReplaceConfiguration", "CompleteConfiguration",
               "ReloadStaticConfiguration", "MoveContainerToMonitorNumber",
               "MoveContainerToMonitorWorkspaceNumber",
               "MoveContainerToNamedWorkspace",
               "MoveContainerToWorkspaceNumber",
               "MoveWorkspaceToMonitorNumber", "CycleMoveContainerToMonitor",
               "CycleMoveContainerToWorkspace", "CycleMoveWorkspaceToMonitor",
               "CloseWorkspace", "SendContainerToMonitorNumber",
               "SendContainerToMonitorWorkspaceNumber",
               "SendContainerToNamedWorkspace",
               "SendContainerToWorkspaceNumber", "CycleSendContainerToMonitor",
               "CycleSendContainerToWorkspace"}

should_update_NoGuard(event) == event.type \in {"Socket", "WindowManager"}

\* komo.rs:151-155  the match on notification.event
should_update(event) ==
    \/ event.type = "Socket" /\ should_update_sm(event.kind)
    \/ event.type = "WindowManager" /\ should_update_wme(event.kind)

(***************************************************************************)
(* What the daemon sends on one accepted connection.  The bytes are one of *)
(* nothing, bytes that are not UTF-8, text that is not JSON, JSON that is  *)
(* not a Notification, or a Notification (an event and the full state).    *)
(***************************************************************************)
NoEvent == [type |-> "none", kind |-> "none"]

NoState == DaemonState(<<>>, 0)

Payload(bytes, event, state) == [bytes |-> bytes, event |-> event, state |-> state]

EmptyBytes == Payload("empty", NoEvent, NoState)

Malformed == {Payload(b, NoEvent, NoState) : b \in {"nonutf8", "badjson", "badenv"}}

SessionEvents ==
    {[type |-> "Socket", kind |-> "FocusWorkspaceNumber"],
     [type |-> "Socket", kind |-> "Minimize"],
     [type |-> "WindowManager", kind |-> "Cloak"],
     [type |-> "WindowManager", kind |-> "FocusChange"]}

TwoWorkspaces == <<KWorkspace(None, 1), KWorkspace("web", 0)>>

SessionStates ==
    {NoState,
     DaemonState(<<Monitor(TwoWorkspaces, 1)>>, 0),
     DaemonState(<<Monitor(<<KWorkspace(None, 0)>>, 0)>>, 0)}

Payloads ==
    {EmptyBytes} \cup Malformed
    \cup {Payload("notif", e, s) : e \in SessionEvents, s \in SessionStates}

(***************************************************************************)
(* komo.rs:129-147  the two decoding stages.                               *)
(***************************************************************************)
\* serde_json::from_slice::<Value>: fails on no bytes, non-UTF8, non-JSON
from_slice(buf) ==
    IF buf.bytes \in {"empty", "nonutf8", "badjson"} THEN Err ELSE Ok(buf)

\* serde_json::from_value::<Notification>: fails on any other JSON document
from_value(value) ==
    IF value.bytes = "notif"
    THEN Ok([event |-> value.event, state |-> value.state])
    ELSE Err

NoNotification == [event |-> NoEvent, state |-> NoState]

\* komo.rs:129-147 as one function of the buffer
decode(buf) ==
    LET value == from_slice(buf)
    IN IF ~value.ok THEN Err ELSE from_value(value.value)

(***************************************************************************)
(* msgs.rs:8-26  UpdateWorkspaces: the snapshot is boxed, the address      *)
(* travels in lparam, and from_wndmsg takes the box back.                  *)
(***************************************************************************)
UpdateWorkspacesID == "WM_APP+1"

Box(data, conn) == [data |-> data, conn |-> conn, posted |-> FALSE, released |-> 0]

\* Box::new + Box::into_raw: the new box's address is the next free one
to_wmdmsg(h) == [msg_id |-> UpdateWorkspacesID, lparam |-> Len(h) + 1]

\* Box::from_raw + deref: the box is released and its value moved out
from_wndmsg(h, p) ==
    [h EXCEPT ![p.lparam] = [@ EXCEPT !.released = @ + 1]]

(***************************************************************************)
(* The posted-message queue of the window's thread.                        *)
(***************************************************************************)
\* a message posted ahead of the ones already waiting
PostMessage_Front(q, m) == <<m>> \o q

PostMessage_Coalesce(q, m) ==
    IF q # <<>> /\ q[Len(q)].msg_id = m.msg_id
    THEN [q EXCEPT ![Len(q)] = m]
    ELSE Append(q, m)

\* komo.rs:171, window/mod.rs:177  HWND::PostMessage on a valid window
PostMessage(q, m) == Append(q, m)

GetMessage_Last(q) == [msg |-> q[Len(q)], rest |-> SubSeq(q, 1, Len(q) - 1)]

\* window/mod.rs:516  GetMessage: the oldest posted message
GetMessage(q) == [msg |-> Head(q), rest |-> Tail(q)]

(***************************************************************************)
(* The states of the session named by the specification.                   *)
(***************************************************************************)
Terminated == {"returned", "panicked"}

SessionState ==
    IF pc = "subscribe" THEN "Connecting"
    ELSE IF pc = "reregister" THEN "Disconnected"
    ELSE IF pc \in Terminated THEN "Terminated"
    ELSE "Listening"

\* workspaces.rs:15  Self { data: Vec::new() }, before any call
DiffIdle ==
    /\ self_data = <<>>
    /\ prev_data = <<>>
    /\ snapshot = <<>>
    /\ returned = FALSE
    /\ called = "none"

\* no state has been handed to the projection
ProjIdle ==
    /\ proj_state = NoState
    /\ proj_result = Err
    /\ proj_done = FALSE

\* no event has been handed to the filter
FiltIdle ==
    /\ filt_event = NoEvent
    /\ filt_result = FALSE
    /\ filt_done = FALSE

Init ==
    /\ pc = "subscribe"
    /\ buffer = EmptyBytes
    /\ notification = NoNotification
    /\ new_workspaces = <<>>
    /\ last = "none"
    /\ retries = 0
    /\ nrecv = 0 /\ ndecoded = 0 /\ nskipped = 0 /\ neligible = 0
    /\ nposts = 0 /\ npostok = 0 /\ nzero = 0 /\ nreconn = 0
    /\ fed = 0
    /\ heap = <<>>
    /\ queue = <<>>
    \* window/mod.rs:23-30  Window::new keeps querying until a projection succeeds
    /\ workspaces \in {workspaces_from_state(s).value :
                          s \in {t \in SessionStates : workspaces_from_state(t).ok}}
    /\ window = "attached"
    /\ loop = "running"
    /\ quit_requested = FALSE
    /\ lastHandled = 0
    \* window/mod.rs:98  the window is created WS_VISIBLE: its first paint is due
    /\ invalidated = TRUE
    /\ consumer = "get_message"
    /\ DiffIdle
    /\ ProjIdle
    /\ FiltIdle

(***************************************************************************)
(* listen_for_workspaces, komo.rs:63-179, one action per blocking call or  *)
(* stage of the loop body.  The operators After... give the position the   *)
(* code continues at after each result.                                    *)
(***************************************************************************)
\* The retry loops (komo.rs:64-69, 86-97, 119-122) have no cap: a call may
\* fail any number of times.  The count of failures is kept up to MaxRetries;
\* every further failure leaves the session where it is.
Counted(n) == IF n < MaxRetries THEN n + 1 ELSE n

AfterSubscribe_GiveUp(res) == IF res = "ok" THEN "accept" ELSE "returned"

\* komo.rs:64-69  loop { match subscribe { Ok => break, Err => sleep(1s) } }
AfterSubscribe(res) == IF res = "ok" THEN "accept" ELSE "subscribe"

Subscribe ==
    /\ pc = "subscribe"
    /\ \E res \in {"ok", "err"} :
          /\ pc' = AfterSubscribe(res)
          /\ last' = IF res = "ok" THEN "subscribe_ok" ELSE "subscribe_err"
          /\ retries' = IF res = "ok" THEN retries ELSE Counted(retries)
    /\ UNCHANGED <<buffer, notification, new_workspaces, nrecv, ndecoded,
                   nskipped, neligible, nposts, npostok, nzero, nreconn, fed,
                   heap, queue>>
    /\ UNCHANGED consumerVars
    /\ UNCHANGED pureVars

\* komo.rs:76-105  the match on the accepted client
AfterAccept(res) ==
    CASE res = "ok" -> "read"
      [] res = "err_109" -> "resubscribe"
      [] res = "err_other" -> "accept"
      [] res = "err_nocode" -> "panicked"

\* komo.rs:73-105  socket.incoming().next(): a client, an error with OS code
\* 109, an error with another OS code, or an error with no OS code (expect)
Accept ==
    /\ pc = "accept"
    /\ \E res \in {"ok", "err_109", "err_other", "err_nocode"} :
          /\ res = "ok" => nrecv < MaxConns
          /\ pc' = AfterAccept(res)
          /\ last' = "accept_" \o res
          /\ nrecv' = IF res = "ok" THEN nrecv + 1 ELSE nrecv
          /\ retries' = 0
    /\ UNCHANGED <<buffer, notification, new_workspaces, ndecoded, nskipped,
                   neligible, nposts, npostok, nzero, nreconn, fed, heap, queue>>
    /\ UNCHANGED consumerVars
    /\ UNCHANGED pureVars

\* komo.rs:82-97  Command::output()? and the while !status.success() loop
AfterCommand(res) ==
    CASE res = "exit_ok" -> "accept"
      [] res = "exit_fail" -> "resubscribe"
      [] res = "spawn_err" -> "returned"

\* komo.rs:82-99  one run of cmd.exe /C komorebic.exe subscribe-socket
ResubscribeCommand ==
    /\ pc = "resubscribe"
    /\ \E res \in {"exit_ok", "exit_fail", "spawn_err"} :
          /\ pc' = AfterCommand(res)
          /\ last' = "cmd_" \o res
          /\ retries' = IF res = "exit_fail" THEN Counted(retries) ELSE retries
    /\ UNCHANGED <<buffer, notification, new_workspaces, nrecv, ndecoded,
                   nskipped, neligible, nposts, npostok, nzero, nreconn, fed,
                   heap, queue>>
    /\ UNCHANGED consumerVars
    /\ UNCHANGED pureVars

IsShutdown_AnyEmpty(res, buf) == buf.bytes = "empty"

\* komo.rs:113  matches!(reader.read_to_end(&mut buffer), Ok(0))
IsShutdown(res, buf) == res = "ok" /\ buf.bytes = "empty"

\* a notification the code is to post for: decodable, relevant, projectable
Eligible(buf) ==
    /\ decode(buf).ok
    /\ should_update(decode(buf).value.event)
    /\ workspaces_from_state(decode(buf).value.state).ok

\* komo.rs:106-113  the accepted client is read with no read timeout set on
\* it: while the peer neither sends nor closes, read_to_end does not return
ReadOutcomes == {"ok", "err"}

\* komo.rs:108-116  read_to_end: Ok(n) with the n bytes the peer sent, or an
\* error with whatever had been read before it
Read ==
    /\ pc = "read"
    /\ \E res \in ReadOutcomes, buf \in Payloads :
          /\ last' = "read_" \o res
          /\ neligible' = IF ~IsShutdown(res, buf) /\ Eligible(buf)
                          THEN neligible + 1 ELSE neligible
          /\ IF IsShutdown(res, buf)
             THEN /\ pc' = "reregister"
                  /\ buffer' = EmptyBytes
                  /\ nzero' = nzero + 1
                  /\ retries' = 0
             ELSE /\ pc' = "decode"
                  /\ buffer' = buf
                  /\ UNCHANGED <<nzero, retries>>
    /\ UNCHANGED <<notification, new_workspaces, nrecv, ndecoded, nskipped,
                   nposts, npostok, nreconn, fed, heap, queue>>
    /\ UNCHANGED consumerVars
    /\ UNCHANGED pureVars

\* komo.rs:113  read_to_end on a peer that neither sends nor closes: the
\* call is entered and, with no timeout on the client, never returns
ReadSilentPeer ==
    /\ pc = "read"
    /\ pc' = "blocked_read"
    /\ last' = "read_blocked"
    /\ UNCHANGED <<buffer, notification, new_workspaces, retries, nrecv,
                   ndecoded, nskipped, neligible, nposts, npostok, nzero,
                   nreconn, fed, heap, queue>>
    /\ UNCHANGED consumerVars
    /\ UNCHANGED pureVars

\* komo.rs:119-126  while let Err(e) = send_message(..) { sleep(1s) }; continue
AfterReregister(res) == IF res = "ok" THEN "accept" ELSE "reregister"

\* komo.rs:115-126  one send_message(AddSubscriberSocket) call
Reregister ==
    /\ pc = "reregister"
    /\ \E res \in {"ok", "err"} :
          /\ pc' = AfterReregister(res)
          /\ last' = "send_" \o res
          /\ retries' = IF res = "err" THEN Counted(retries) ELSE retries
          /\ nreconn' = IF res = "ok" THEN nreconn + 1 ELSE nreconn
    /\ UNCHANGED <<buffer, notification, new_workspaces, nrecv, ndecoded,
                   nskipped, neligible, nposts, npostok, nzero, fed, heap, queue>>
    /\ UNCHANGED consumerVars
    /\ UNCHANGED pureVars

AfterDecode_Propagate(d) == IF d.ok THEN "filter" ELSE "returned"

\* komo.rs:129-147  let Ok(..) = .. else { log; continue }
AfterDecode(d) == IF d.ok THEN "filter" ELSE "accept"

\* the payloads of the sequence non-UTF8, invalid JSON, valid notification
FedKind == <<"nonutf8", "badjson", "notif">>

Decode ==
    /\ pc = "decode"
    /\ LET d == decode(buffer)
       IN /\ pc' = AfterDecode(d)
          /\ notification' = IF d.ok THEN d.value ELSE NoNotification
          /\ ndecoded' = IF d.ok THEN ndecoded + 1 ELSE ndecoded
          /\ nskipped' = IF d.ok THEN nskipped ELSE nskipped + 1
          /\ last' = IF d.ok THEN "decode_ok" ELSE "decode_err"
    /\ fed' = IF fed < 3 /\ nrecv = fed + 1 /\ buffer.bytes = FedKind[fed + 1]
              THEN fed + 1 ELSE fed
    /\ buffer' = EmptyBytes
    /\ UNCHANGED <<new_workspaces, retries, nrecv, neligible, nposts,
                   npostok, nzero, nreconn, heap, queue>>
    /\ UNCHANGED consumerVars
    /\ UNCHANGED pureVars

\* komo.rs:158-161  if !should_update { continue }
AfterFilter(update) == IF update THEN "project" ELSE "accept"

\* komo.rs:151-161
Filter ==
    /\ pc = "filter"
    /\ pc' = AfterFilter(should_update(notification.event))
    /\ notification' = IF pc' = "accept" THEN NoNotification ELSE notification
    /\ last' = IF should_update(notification.event)
               THEN "filter_update" ELSE "filter_skip"
    /\ UNCHANGED <<buffer, new_workspaces, retries, nrecv, ndecoded,
                   nskipped, neligible, nposts, npostok, nzero, nreconn, fed,
                   heap, queue>>
    /\ UNCHANGED consumerVars
    /\ UNCHANGED pureVars

\* a projection failure handed on as an empty snapshot instead of `continue`
AfterProject_PostAnyway(r) == "post"

\* komo.rs:163-169  match workspaces_from_state { Ok => .., Err => continue }
AfterProject(r) == IF r.ok THEN "post" ELSE "accept"

Project ==
    /\ pc = "project"
    /\ LET r == workspaces_from_state(notification.state)
       IN /\ pc' = AfterProject(r)
          /\ new_workspaces' = r.value
          /\ notification' = IF r.ok THEN notification ELSE NoNotification
          /\ last' = IF r.ok THEN "project_ok" ELSE "project_err"
    /\ UNCHANGED <<buffer, retries, nrecv, ndecoded, nskipped, neligible,
                   nposts, npostok, nzero, nreconn, fed, heap, queue>>
    /\ UNCHANGED consumerVars
    /\ UNCHANGED pureVars

\* komo.rs:171  PostMessage(..)?  : an error returns from the function
AfterPost(ok) == IF ok THEN "accept" ELSE "returned"

\* PostMessage succeeds while the window exists
IsWindow == window = "attached"

\* komo.rs:171-173  box the snapshot, post its address
Post ==
    /\ pc = "post"
    /\ LET msg == to_wmdmsg(heap)
           boxed == Append(heap, Box(new_workspaces, nrecv))
           ok == IsWindow
       IN /\ heap' = IF ok THEN [boxed EXCEPT ![msg.lparam].posted = TRUE]
                     ELSE boxed
          /\ queue' = IF ok THEN PostMessage(queue, msg) ELSE queue
          /\ pc' = AfterPost(ok)
          /\ last' = IF ok THEN "post_ok" ELSE "post_err"
          /\ npostok' = IF ok THEN npostok + 1 ELSE npostok
    /\ nposts' = nposts + 1
    /\ new_workspaces' = <<>>
    /\ notification' = NoNotification
    /\ UNCHANGED <<buffer, retries, nrecv, ndecoded, nskipped, neligible,
                   nzero, nreconn, fed>>
    /\ UNCHANGED consumerVars
    /\ UNCHANGED pureVars

(***************************************************************************)
(* The consumer: Window::run_loop retrieves the oldest posted message and  *)
(* dispatches it to wnd_proc, window/mod.rs:110-170 and 514-523.           *)
(***************************************************************************)
Message(id) == [msg_id |-> id, lparam |-> 0]

\* window/mod.rs:516  the window thread is inside GetMessage, not in a handler
InLoop == loop = "running" /\ consumer = "get_message"

\* window/mod.rs:195, 516  messages are retrieved and dispatched to wnd_proc
\* by GetMessage/DispatchMessage in run_loop and, while the popup menu is
\* open, by the message loop TrackPopupMenu runs inside handle_rbuttondown
Pumping ==
    loop = "running" /\ consumer \in {"get_message", "track_popup_menu"}

Retrievable == Pumping /\ window = "attached" /\ queue # <<>>

\* window/mod.rs:492-493, 238-239  self.resize_to_fit()?; then
\* self.hwnd.InvalidateRect(None, true)?: the request is made unless
\* resize_to_fit failed
AfterResize(resized, inv) == IF resized = "ok" THEN TRUE ELSE inv

\* window/mod.rs:162 and 487-495  UpdateWorkspaces: from_wndmsg, then
\* handle_update_workspaces stores the snapshot; wnd_proc passes the message
\* to DefWindowProc (window/mod.rs:128-131) when no Window is attached
DispatchUpdateWorkspaces ==
    /\ Retrievable
    /\ LET g == GetMessage(queue)
           p == g.msg
       IN /\ p.msg_id = UpdateWorkspacesID
          /\ queue' = g.rest
          /\ IF window = "attached"
             THEN /\ heap' = from_wndmsg(heap, p)
                  /\ workspaces' = heap[p.lparam].data
                  /\ lastHandled' = heap[p.lparam].conn
                  \* window/mod.rs:492-493  resize_to_fit()?, then InvalidateRect
                  /\ \E resized \in {"ok", "err"} :
                        invalidated' = AfterResize(resized, invalidated)
             ELSE UNCHANGED <<heap, workspaces, lastHandled, invalidated>>
    /\ UNCHANGED <<window, loop, quit_requested, consumer>>
    /\ UNCHANGED sessionVars
    /\ UNCHANGED pureVars

\* window/mod.rs:186-195  WM_RBUTTONDOWN: handle_rbuttondown builds the menu
\* and enters TrackPopupMenu, which does not return while the menu is open
HandleRButtonDown ==
    /\ InLoop /\ window = "attached" /\ ~quit_requested
    /\ queue = <<>>
    /\ consumer' = "track_popup_menu"
    /\ UNCHANGED <<heap, queue, workspaces, window, loop, quit_requested,
                   lastHandled, invalidated>>
    /\ UNCHANGED sessionVars
    /\ UNCHANGED pureVars

\* window/mod.rs:195-199  the Quit entry is chosen: WM_COMMAND(ID_EXIT) is
\* posted to the window, TrackPopupMenu returns and the handler finishes
MenuQuit ==
    /\ loop = "running" /\ consumer = "track_popup_menu"
    /\ window = "attached"
    /\ quit_requested' = TRUE
    /\ queue' = PostMessage(queue, Message("WM_COMMAND"))
    /\ consumer' = "get_message"
    /\ UNCHANGED <<heap, workspaces, window, loop, lastHandled, invalidated>>
    /\ UNCHANGED sessionVars
    /\ UNCHANGED pureVars

\* window/mod.rs:195-199  the menu is dismissed without a choice
MenuDismiss ==
    /\ loop = "running" /\ consumer = "track_popup_menu"
    /\ consumer' = "get_message"
    /\ UNCHANGED <<heap, queue, workspaces, window, loop, quit_requested,
                   lastHandled, invalidated>>
    /\ UNCHANGED sessionVars
    /\ UNCHANGED pureVars

\* window/mod.rs:172-184  handle_command(ID_EXIT) posts WM_CLOSE
DispatchCommand ==
    /\ Retrievable
    /\ LET g == GetMessage(queue)
       IN /\ g.msg.msg_id = "WM_COMMAND"
          /\ queue' = PostMessage(g.rest, Message("WM_CLOSE"))
    /\ UNCHANGED <<heap, workspaces, window, loop, quit_requested, lastHandled,
                   invalidated, consumer>>
    /\ UNCHANGED sessionVars
    /\ UNCHANGED pureVars

\* window/mod.rs:168  WM_CLOSE goes to DefWindowProc, which destroys the
\* window: WM_DESTROY posts the quit message (164-167) and WM_NCDESTROY
\* clears USERDATA and the handle (135-142, 510-512).  What is still queued
\* for the window is never retrieved afterwards.
DispatchClose ==
    /\ Retrievable
    /\ LET g == GetMessage(queue)
       IN /\ g.msg.msg_id = "WM_CLOSE"
          /\ queue' = g.rest
    /\ window' = "destroyed"
    /\ UNCHANGED <<heap, workspaces, loop, quit_requested, lastHandled,
                   invalidated, consumer>>
    /\ UNCHANGED sessionVars
    /\ UNCHANGED pureVars

\* window/mod.rs:516  GetMessage returns false on the quit message
RunLoopExit ==
    /\ InLoop /\ window = "destroyed"
    /\ loop' = "exited"
    /\ UNCHANGED <<heap, queue, workspaces, window, quit_requested, lastHandled,
                   invalidated, consumer>>
    /\ UNCHANGED sessionVars
    /\ UNCHANGED pureVars

Next ==
    \/ Subscribe
    \/ Accept
    \/ ResubscribeCommand
    \/ Read
    \/ ReadSilentPeer
    \/ Reregister
    \/ Decode
    \/ Filter
    \/ Project
    \/ Post
    \/ DispatchUpdateWorkspaces
    \/ HandleRButtonDown
    \/ MenuQuit
    \/ MenuDismiss
    \/ DispatchCommand
    \/ DispatchClose
    \/ RunLoopExit

Spec == Init /\ [][Next]_vars

\* the steps the session thread takes by itself, komo.rs:129-173: decoding,
\* filtering, projecting and PostMessage wait for nobody
SessionInternal ==
    \/ Decode
    \/ Filter
    \/ Project
    \/ Post

\* The session is a thread of the process, kept running by the scheduler
\* while the process lives: a step it can take by itself it eventually takes,
\* as long as the window loop runs.  When run_loop returns, main returns
\* (main.rs:25, 40) and the process ends with the thread wherever it is, so
\* nothing is required of the session after that.  subscribe (komo.rs:64-69),
\* socket.incoming() (73), the subscribe command (82-97), read_to_end (113)
\* and send_message (119) return when the daemon or the peer lets them: the
\* daemon may stay down and no client may ever connect, so these steps are
\* never required to happen.
SpecLive == Spec /\ WF_vars(loop = "running" /\ SessionInternal)

(***************************************************************************)
(* The window thread with the messages that do not come from the session:  *)
(* WM_PAINT, the mouse buttons and WM_SETTINGCHANGE.  GetMessage hands out *)
(* posted messages before input messages and input before WM_PAINT, so     *)
(* these are handled while the posted-message queue is empty; a sent       *)
(* message (WM_SETTINGCHANGE) is handled whenever the thread is in a       *)
(* message loop, the popup menu's included.                                *)
(***************************************************************************)
\* window/mod.rs:502-508  handle_paint: BeginPaint validates the update region
HandlePaint ==
    /\ Pumping /\ window = "attached"
    /\ queue = <<>>
    /\ invalidated
    /\ invalidated' = FALSE
    /\ UNCHANGED <<heap, queue, workspaces, window, loop, quit_requested,
                   lastHandled, consumer>>
    /\ UNCHANGED sessionVars
    /\ UNCHANGED pureVars

\* window/mod.rs:201-228  handle_lbuttondown: a click inside the rectangle of
\* slot hit (0: outside every rectangle) calls komorebi_client::send_query
AfterClick(hit) == IF hit > 0 THEN "send_query" ELSE "get_message"

\* window/mod.rs:201-228  WM_LBUTTONDOWN
HandleLButtonDown ==
    /\ InLoop /\ window = "attached"
    /\ queue = <<>>
    /\ \E hit \in 0..Len(workspaces) :
          /\ hit > 0
          /\ consumer' = AfterClick(hit)
    /\ UNCHANGED <<heap, queue, workspaces, window, loop, quit_requested,
                   lastHandled, invalidated>>
    /\ UNCHANGED sessionVars
    /\ UNCHANGED pureVars

\* window/mod.rs:221  send_query(..)? returns, with the daemon's reply or an
\* error; wnd_proc logs an error (145-147) and the thread is back in the loop
SendQueryReturn ==
    /\ consumer = "send_query"
    /\ consumer' = "get_message"
    /\ UNCHANGED <<heap, queue, workspaces, window, loop, quit_requested,
                   lastHandled, invalidated>>
    /\ UNCHANGED sessionVars
    /\ UNCHANGED pureVars

\* the setting-change handler querying the daemon for the workspaces again
HandleSettingChanged_Requery ==
    /\ Pumping /\ window = "attached"
    /\ workspaces' = <<>>
    /\ invalidated' = TRUE
    /\ UNCHANGED <<heap, queue, window, loop, quit_requested, lastHandled,
                   consumer>>
    /\ UNCHANGED sessionVars
    /\ UNCHANGED pureVars

\* window/mod.rs:230-241  handle_setting_changed: Settings::new()?, the colour
\* key, resize_to_fit()?, InvalidateRect
HandleSettingChanged ==
    /\ Pumping /\ window = "attached"
    /\ \E resized \in {"ok", "err"} :
          invalidated' = AfterResize(resized, invalidated)
    /\ UNCHANGED <<heap, queue, workspaces, window, loop, quit_requested,
                   lastHandled, consumer>>
    /\ UNCHANGED sessionVars
    /\ UNCHANGED pureVars

NextWindow ==
    \/ Next
    \/ HandlePaint
    \/ HandleLButtonDown
    \/ SendQueryReturn
    \/ HandleSettingChanged

SpecWindow == Init /\ [][NextWindow]_vars

(***************************************************************************)
(* Workspaces, workspaces.rs: the diffed model and its try_update.  A      *)
(* Workspaces value is modelled by its data vector.                        *)
(***************************************************************************)
\* slots a snapshot handed to try_update may have
MaxSlots == 2

\* workspaces.rs:3-7
ChangedWorkspace(d, nc, sc) ==
    [data |-> d, name_changed |-> nc, state_changed |-> sc]

\* the names a slot may carry: a fallback number or a daemon-supplied name
SlotNames == {"1", "web"}

Snapshots ==
    UNION {[1..n -> {Workspace(nm, st) : nm \in SlotNames, st \in WorkspaceState}]
              : n \in 0..MaxSlots}

\* the equal-length loop assigning each flag whether its field differs
update_slot_AssignFlags(current, workspace) ==
    [data |-> workspace,
     name_changed |-> current.data.name # workspace.name,
     state_changed |-> current.data.state # workspace.state]

\* workspaces.rs:31-42  one iteration of the equal-length loop; a flag is
\* assigned only where the field differs, otherwise it keeps its value
update_slot(current, workspace) ==
    LET name_differs  == current.data.name # workspace.name
        state_differs == current.data.state # workspace.state
    IN ChangedWorkspace(
          Workspace(IF name_differs THEN workspace.name ELSE current.data.name,
                    IF state_differs THEN workspace.state ELSE current.data.state),
          IF name_differs THEN TRUE ELSE current.name_changed,
          IF state_differs THEN TRUE ELSE current.state_changed)

\* the structural branch leaving the flags of the new slots down
replaced_Unflagged(new) ==
    [i \in 1..Len(new) |-> ChangedWorkspace(new[i], FALSE, FALSE)]

\* workspaces.rs:46-53  the structural branch: every slot rebuilt, flags up
replaced(new) ==
    [i \in 1..Len(new) |-> ChangedWorkspace(new[i], TRUE, TRUE)]

\* the equal-length result computed from the names alone
slot_differs_NameOnly(current, workspace) ==
    current.data.name # workspace.name

\* workspaces.rs:33-42  `changed = true` in either if of the loop body
slot_differs(current, workspace) ==
    \/ current.data.name # workspace.name
    \/ current.data.state # workspace.state

\* the equal-length branch run over the names only
try_update_NamesOnly(self, new) ==
    IF Len(self) = Len(new)
    THEN [data    |-> [i \in 1..Len(self) |->
                         [data |-> [name |-> new[i].name,
                                    state |-> self[i].data.state],
                          name_changed |->
                              \/ self[i].name_changed
                              \/ self[i].data.name # new[i].name,
                          state_changed |-> self[i].state_changed]],
          changed |-> \E i \in 1..Len(self) : self[i].data # new[i]]
    ELSE [data    |-> [i \in 1..Len(new) |->
                         [data |-> new[i], name_changed |-> TRUE,
                          state_changed |-> TRUE]],
          changed |-> TRUE]

\* workspaces.rs:28-56  the model after the call and the value returned
try_update(self, new) ==
    IF Len(self) = Len(new)
    THEN [data    |-> [i \in 1..Len(self) |-> update_slot(self[i], new[i])],
          changed |-> \E i \in 1..Len(self) : slot_differs(self[i], new[i])]
    ELSE [data    |-> replaced(new),
          changed |-> TRUE]

\* workspaces.rs:58-60
name_changed(self) == \E i \in 1..Len(self) : self[i].name_changed

\* the session and the window procedure at rest
SessionIdle ==
    /\ pc = "subscribe"
    /\ buffer = EmptyBytes
    /\ notification = NoNotification
    /\ new_workspaces = <<>>
    /\ last = "none"
    /\ retries = 0
    /\ nrecv = 0 /\ ndecoded = 0 /\ nskipped = 0 /\ neligible = 0
    /\ nposts = 0 /\ npostok = 0 /\ nzero = 0 /\ nreconn = 0
    /\ fed = 0
    /\ heap = <<>>
    /\ queue = <<>>
    /\ workspaces = <<>>
    /\ window = "attached"
    /\ loop = "running"
    /\ quit_requested = FALSE
    /\ lastHandled = 0
    \* window/mod.rs:98  the window is created WS_VISIBLE: its first paint is due
    /\ invalidated = TRUE
    /\ consumer = "get_message"

InitDiff ==
    /\ SessionIdle
    /\ DiffIdle
    /\ ProjIdle
    /\ FiltIdle

\* workspaces.rs:14-26  Workspaces::new: the first snapshot read_workspaces
\* returns goes through try_update on the empty vector
New ==
    /\ called = "none"
    /\ \E new \in Snapshots :
          LET r == try_update(self_data, new)
          IN /\ self_data' = r.data
             /\ returned' = r.changed
             /\ snapshot' = new
    /\ prev_data' = self_data
    /\ called' = "new"
    /\ UNCHANGED <<sessionVars, heap, queue, consumerVars, projVars, filtVars>>

\* workspaces.rs:28-56  a later call of try_update on the constructed model
TryUpdate ==
    /\ called # "none"
    /\ \E new \in Snapshots :
          LET r == try_update(self_data, new)
          IN /\ self_data' = r.data
             /\ returned' = r.changed
             /\ snapshot' = new
    /\ prev_data' = self_data
    /\ called' = "try_update"
    /\ UNCHANGED <<sessionVars, heap, queue, consumerVars, projVars, filtVars>>

NextDiff ==
    \/ New
    \/ TryUpdate

SpecDiff == InitDiff /\ [][NextDiff]_vars

(***************************************************************************)
(* workspaces_from_state, komo.rs:27-49, applied to daemon states: one or  *)
(* two monitors, a focused-monitor index that may point past the ring, up  *)
(* to MaxWs workspaces with or without a name and windows, and a           *)
(* focused-workspace index that may point past the workspaces; one longer  *)
(* list takes the fallback names past one digit.                           *)
(***************************************************************************)
\* workspaces of a monitor, in all combinations
MaxWs == 3
\* workspaces of the one long list
MaxLong == 10

ProjWorkspaces == {KWorkspace(nm, w) : nm \in {None, "web"}, w \in {0, 2}}

LongList ==
    [i \in 1..MaxLong |->
        IF i = 2 THEN KWorkspace("web", 2) ELSE KWorkspace(None, 0)]

WorkspaceLists ==
    UNION {[1..n -> ProjWorkspaces] : n \in 0..MaxWs} \cup {LongList}

\* the focused index of a ring is a usize taken from the daemon's JSON: every
\* index of the list and the first one past it
ProjMonitors ==
    UNION {{Monitor(ws, f) : f \in 0..Len(ws)} : ws \in WorkspaceLists}

\* a monitor that is not the focused one
OtherMonitor == Monitor(<<KWorkspace("other", 2), KWorkspace(None, 2)>>, 1)

ProjStates ==
    {NoState}
    \cup {DaemonState(<<m>>, 0) : m \in ProjMonitors}
    \cup {DaemonState(<<m>>, 1) : m \in ProjMonitors}
    \cup {DaemonState(<<OtherMonitor, m>>, 1) : m \in ProjMonitors}

InitProj ==
    /\ SessionIdle
    /\ DiffIdle
    /\ FiltIdle
    /\ proj_state \in ProjStates
    /\ proj_result = Err
    /\ proj_done = FALSE

\* komo.rs:27-49  one call of workspaces_from_state
ProjectState ==
    /\ ~proj_done
    /\ proj_result' = workspaces_from_state(proj_state)
    /\ proj_done' = TRUE
    /\ UNCHANGED <<proj_state, sessionVars, heap, queue, consumerVars,
                   diffVars, filtVars>>

NextProj == ProjectState

SpecProj == InitProj /\ [][NextProj]_vars

(***************************************************************************)
(* The relevance filter, komo.rs:151-155 and 181-224, applied to events.   *)
(* An event is a SocketMessage or a WindowManagerEvent variant with the    *)
(* payload the patterns (_) and (..) ignore.  The kinds are the variants   *)
(* the two functions name, the ones they name in their commented-out       *)
(* arms, and "Other" for every variant they do not name.                   *)
(***************************************************************************)
\* largest payload an event carries
MaxArg == 1

\* komo.rs:194-219  the arms of should_update_sm
SocketKindsMatched ==
    {"FocusWorkspaceNumber", "FocusMonitorNumber",
     "FocusMonitorWorkspaceNumber", "FocusNamedWorkspace",
     "FocusWorkspaceNumbers", "CycleFocusMonitor", "CycleFocusWorkspace",
     "ReloadConfiguration", "ReplaceConfiguration", "CompleteConfiguration",
     "ReloadStaticConfiguration", "MoveContainerToMonitorNumber",
     "MoveContainerToMonitorWorkspaceNumber", "MoveContainerToNamedWorkspace",
     "MoveContainerToWorkspaceNumber", "MoveWorkspaceToMonitorNumber",
     "CycleMoveContainerToMonitor", "CycleMoveContainerToWorkspace",
     "CycleMoveWorkspaceToMonitor", "CloseWorkspace",
     "SendContainerToMonitorNumber", "SendContainerToMonitorWorkspaceNumber",
     "SendContainerToNamedWorkspace", "SendContainerToWorkspaceNumber",
     "CycleSendContainerToMonitor", "CycleSendContainerToWorkspace"}

\* komo.rs:219-222  the commented-out arms, and any other variant.  The
\* SocketMessage enum is declared in the komorebi_client crate, outside this
\* repository: "Other" is every variant of it that komo.rs does not name.
\* matches! is false on all of them alike, so "Other" gives the function's
\* result on each; which commands they are is not known here.
SocketKinds ==
    SocketKindsMatched \cup {"Hide", "Minimize", "Show", "TitleUpdate", "Other"}

\* komo.rs:184-187  the arms of should_update_wme, live and commented out
WindowManagerKinds ==
    {"Cloak", "Uncloak", "Destroy", "FocusChange", "Hide", "Other"}

FiltEvents ==
    {[type |-> "Socket", kind |-> k, arg |-> a] :
        k \in SocketKinds, a \in 0..MaxArg}
    \cup {[type |-> "WindowManager", kind |-> k, arg |-> a] :
              k \in WindowManagerKinds, a \in 0..MaxArg}

InitFilt ==
    /\ SessionIdle
    /\ DiffIdle
    /\ ProjIdle
    /\ filt_event \in FiltEvents
    /\ filt_result = FALSE
    /\ filt_done = FALSE

\* komo.rs:151-155  one evaluation of the match on notification.event
FilterEvent ==
    /\ ~filt_done
    /\ filt_result' = should_update(filt_event)
    /\ filt_done' = TRUE
    /\ UNCHANGED <<filt_event, sessionVars, heap, queue, consumerVars,
                   diffVars, projVars>>

NextFilt == FilterEvent

SpecFilt == InitFilt /\ [][NextFilt]_vars

(***************************************************************************)
(* Properties.                                                             *)
(***************************************************************************)
UpdateIndices == {i \in 1..Len(queue) : queue[i].msg_id = UpdateWorkspacesID}

\* how many queued messages carry the address p
Queued(p) == Cardinality({i \in UpdateIndices : queue[i].lparam = p})

LoopHead == {"subscribe", "accept", "resubscribe", "reregister"}

\* C1: once started the session never returns and never panics: it is always
\* Connecting, Listening or Disconnected, whatever the results of subscribe,
\* accept, read, re-registration and delivery are.
C1_NeverTerminates ==
    SessionState \in {"Connecting", "Listening", "Disconnected"}

\* C2: the session enters Disconnected exactly when a read completes with
\* Ok(0) (not on a non-empty read, not on a read error); while Disconnected
\* it accepts nothing and posts nothing, every failed re-registration is
\* followed by another one, and it leaves Disconnected only for Listening and
\* only by a re-registration that succeeded.
C2_DisconnectedOnlyOnZeroRead ==
    [][ /\ (SessionState # "Disconnected" /\ SessionState' = "Disconnected")
            => pc = "read"
        /\ (pc = "read" /\ pc' # pc)
            => /\ pc' \in {"reregister", "decode", "blocked_read"}
               /\ (pc' = "reregister")
                    <=> (last' = "read_ok" /\ buffer'.bytes = "empty")
               /\ (pc' = "reregister") => nzero' = nzero + 1
        /\ (pc = "reregister")
            => /\ nrecv' = nrecv /\ nposts' = nposts /\ Len(heap') = Len(heap)
               /\ pc' \in {"reregister", "accept"}
               /\ (pc' = "accept")
                    <=> (last' = "send_ok" /\ nreconn' = nreconn + 1)
               /\ (retries' # retries)
                    => (last' = "send_err" /\ pc' = "reregister")
      ]_vars

C2_Witness ==
    /\ pc = "accept" /\ last = "send_ok"
    /\ retries >= 1 /\ nzero = 1 /\ nreconn = 1

\* C3: after a zero-byte read, N failed re-registrations and one success the
\* session has gone Listening -> Disconnected -> Listening exactly once, and
\* every relevant, well-formed notification read afterwards is delivered
\* exactly once.  (Well-formed is read as decodable with a projectable state,
\* the weakest reading of the claim.)  A session that has reconnected has
\* posted every earlier eligible notification successfully, so the counts
\* of all eligible notifications and of all successful posts are compared.
C3_ReconnectConvergence ==
    /\ nzero - nreconn = (IF SessionState = "Disconnected" THEN 1 ELSE 0)
    /\ (nreconn >= 1 /\ pc \in LoopHead \cup Terminated) => npostok = neligible

\* C4: in Connecting every failed subscribe is followed by another subscribe,
\* nothing is accepted or posted, no error surfaces, and the first success
\* enters Listening.
C4_ConnectingRetries ==
    /\ [](pc = "subscribe" => nrecv = 0 /\ nposts = 0 /\ heap = <<>>)
    /\ [][ (pc = "subscribe")
             => /\ pc' \in {"subscribe", "accept"}
                /\ (pc' = "accept") <=> (last' = "subscribe_ok")
                /\ (retries' # retries)
                     => (last' = "subscribe_err" /\ pc' = "subscribe")
                /\ nrecv' = nrecv /\ nposts' = nposts
         ]_vars

C4_Witness ==
    pc = "accept" /\ last = "subscribe_ok" /\ retries >= 2

\* C5: the session makes exactly one PostMessage call, with a box of its own,
\* for each notification read that decodes, is relevant and has a focused
\* monitor, and none for any other; posts are not held back until the consumer
\* has handled earlier ones, and a posted snapshot that has not been handled
\* is queued exactly once (nothing is coalesced).
C5_OnePostPerNotification ==
    /\ nposts = Len(heap)
    /\ npostok = Cardinality({p \in 1..Len(heap) : heap[p].posted})
    /\ pc \in LoopHead \cup Terminated => nposts = neligible
    /\ pc \in {"decode", "filter", "project"} => neligible - nposts \in {0, 1}
    /\ pc = "post" => neligible = nposts + 1
    /\ \A p \in 1..Len(heap) :
          Queued(p) = (IF heap[p].posted /\ heap[p].released = 0 THEN 1 ELSE 0)

C5_Witness ==
    /\ nposts = 2 /\ npostok = 2 /\ pc = "accept"
    /\ Queued(1) = 1 /\ Queued(2) = 1

\* C6: a snapshot is delivered only for a relevant notification, relevant
\* meaning a daemon-command event matched by should_update_sm or a
\* window-manager event matched by should_update_wme; an irrelevant
\* notification and an undecodable payload cause no post and leave the
\* displayed model alone, which changes only by a snapshot taken from a box.
C6_Relevant(event) ==
    \/ event.type = "Socket" /\ should_update_sm(event.kind)
    \/ event.type = "WindowManager" /\ should_update_wme(event.kind)

C6_OnlyRelevantDelivered ==
    /\ [](pc \in {"project", "post"} => C6_Relevant(notification.event))
    /\ [][ /\ (nposts' # nposts \/ Len(heap') # Len(heap))
               => (pc = "post" /\ C6_Relevant(notification.event))
           /\ (pc = "decode" /\ pc' # pc /\ buffer.bytes # "notif")
               => (pc' = "accept" /\ UNCHANGED <<heap, queue, workspaces, nposts>>)
           /\ (pc = "filter" /\ pc' # pc /\ ~C6_Relevant(notification.event))
               => (pc' = "accept" /\ UNCHANGED <<heap, queue, workspaces, nposts>>)
           /\ (workspaces' # workspaces)
               => \E p \in 1..Len(heap) :
                     /\ heap[p].posted /\ heap[p].released = 0
                     /\ heap'[p].released = 1
                     /\ workspaces' = heap[p].data
         ]_vars

C6_Witness ==
    /\ pc = "accept" /\ last = "filter_skip"
    /\ ndecoded = 2 /\ nposts = 1 /\ npostok = 1
    /\ heap[1].released = 1 /\ workspaces = heap[1].data

\* C7: snapshots are handled in the order their notifications were received:
\* the snapshots handled so far are exactly the posted ones received up to
\* the one handled last, and the pending ones are queued in order of receipt.
C7_DeliveredInOrder ==
    /\ \A i, j \in UpdateIndices :
          i < j => heap[queue[i].lparam].conn < heap[queue[j].lparam].conn
    /\ \A i \in UpdateIndices : heap[queue[i].lparam].conn > lastHandled
    /\ \A p \in 1..Len(heap) :
          heap[p].posted => (heap[p].released = 1 <=> heap[p].conn <= lastHandled)
    /\ \A p, q \in 1..Len(heap) : p < q => heap[p].conn < heap[q].conn

C7_Witness ==
    /\ Len(heap) >= 2
    /\ heap[1].released = 1 /\ heap[2].released = 1
    /\ lastHandled = heap[2].conn

\* C8: when the post of a snapshot fails the session drops that snapshot,
\* does not retry it, raises no error and remains Listening.
C8_PostFailureTolerated ==
    [][ (pc = "post" /\ last' = "post_err")
          => (SessionState' = "Listening" /\ nposts' = nposts + 1
              /\ queue' = queue)
      ]_vars

\* C9: every snapshot boxed by to_wmdmsg is released exactly once on every
\* path: never twice, and once as soon as its address is no longer in a
\* queued message (handled, or the post failed).
C9_ReleasedExactlyOnce ==
    \A p \in 1..Len(heap) :
       /\ heap[p].released <= 1
       /\ Queued(p) = 0 => heap[p].released = 1

\* C10: a payload that is not valid UTF-8, not valid JSON or not a
\* notification is skipped with no post and without leaving Listening, and a
\* valid notification is decoded; non-UTF8, then invalid JSON, then a valid
\* notification give one successful decode and two skipped failures.
C10_MalformedSkipped ==
    /\ []((fed = 3 /\ nrecv = 3) => (ndecoded = 1 /\ nskipped = 2))
    /\ [](ndecoded + nskipped + nzero
            = nrecv - (IF pc \in {"read", "decode", "blocked_read"}
                       THEN 1 ELSE 0))
    /\ [][ (pc = "decode" /\ pc' # pc)
             => IF buffer.bytes = "notif"
                THEN /\ pc' = "filter"
                     /\ ndecoded' = ndecoded + 1 /\ nskipped' = nskipped
                     /\ notification'
                          = [event |-> buffer.event, state |-> buffer.state]
                ELSE /\ pc' = "accept" /\ SessionState' = "Listening"
                     /\ nskipped' = nskipped + 1 /\ ndecoded' = ndecoded
                     /\ UNCHANGED <<heap, queue, workspaces, nposts>>
         ]_vars

C10_Witness ==
    fed = 3 /\ nrecv = 3 /\ pc = "filter" /\ ndecoded = 1 /\ nskipped = 2

\* C11: the projection fails exactly when the daemon state has no focused
\* monitor, and a relevant notification whose state has no focused monitor is
\* discarded: the session goes back to accept without posting, boxing or
\* queueing anything, without retrying or re-registering, and stays Listening.
C11_NoFocusedMonitor(state) ==
    \/ Len(state.monitors.elements) = 0
    \/ state.monitors.focused >= Len(state.monitors.elements)

C11_NoFocusedMonitorDiscarded ==
    [][ (pc = "project" /\ pc' # "project") =>
          /\ workspaces_from_state(notification.state).ok
                = ~C11_NoFocusedMonitor(notification.state)
          /\ C11_NoFocusedMonitor(notification.state) =>
                /\ should_update(notification.event)
                /\ pc' = "accept"
                /\ SessionState = "Listening"
                /\ SessionState' = "Listening"
                /\ nposts' = nposts /\ heap' = heap /\ queue' = queue
                /\ retries' = retries /\ nreconn' = nreconn
                /\ nrecv' = nrecv ]_vars

\* a relevant notification without a focused monitor has just been discarded
C11_Witness ==
    /\ pc = "accept" /\ last = "project_err"
    /\ nrecv > 0 /\ nposts = 0 /\ heap = <<>>

\* C12: after a try_update whose snapshot has the slot count of the model,
\* every slot's name_changed is true iff the snapshot's name at that index
\* differs from the model's name before the call, and state_changed is true
\* iff the classification differs; a slot the call left alone is reported
\* unchanged.
C12_EqualLengthDiff ==
    (called # "none" /\ Len(prev_data) = Len(snapshot)) =>
        \A i \in 1..Len(snapshot) :
            /\ self_data[i].name_changed
                  = (snapshot[i].name # prev_data[i].data.name)
            /\ self_data[i].state_changed
                  = (snapshot[i].state # prev_data[i].data.state)

\* C13: a try_update whose snapshot has another slot count than the model
\* replaces the whole model by the snapshot, same length and order, with
\* name_changed and state_changed up on every slot, whatever the old slots
\* were.
C13_StructuralDiff ==
    (called # "none" /\ Len(prev_data) # Len(snapshot)) =>
        /\ Len(self_data) = Len(snapshot)
        /\ \A i \in 1..Len(snapshot) :
              /\ self_data[i].data = snapshot[i]
              /\ self_data[i].name_changed
              /\ self_data[i].state_changed

\* a non-empty model replaced by a non-empty snapshot of another length whose
\* first slot equals the old first slot
C13_Witness ==
    /\ called = "try_update"
    /\ Len(prev_data) # Len(snapshot)
    /\ Len(prev_data) > 0 /\ Len(snapshot) > 0
    /\ prev_data[1].data = snapshot[1]
    /\ self_data[1].name_changed /\ self_data[1].state_changed

\* C14: try_update returns true iff the slot counts differ or some index has
\* another name or another classification in the snapshot, and false when
\* count, names and classifications are all the same, both empty included.
C14_ReturnsChanged ==
    called # "none" =>
        returned = ( \/ Len(prev_data) # Len(snapshot)
                     \/ \E i \in 1..Len(snapshot) :
                           /\ i <= Len(prev_data)
                           /\ prev_data[i].data # snapshot[i] )

\* a later call that found nothing to change in a non-empty model of the
\* same slot count and returned false
C14_Witness ==
    /\ called = "try_update"
    /\ Len(snapshot) > 0
    /\ Len(prev_data) = Len(snapshot)
    /\ \A i \in 1..Len(snapshot) : prev_data[i].data = snapshot[i]
    /\ returned = FALSE

\* C20: after a try_update, name_changed() is true iff that call replaced the
\* model by a non-empty snapshot of another slot count or changed the name of
\* at least one slot; it is false after a call that changed classifications
\* only, or nothing.
C20_NameChangedOfLastUpdate ==
    called # "none" =>
        name_changed(self_data)
          = ( \/ Len(prev_data) # Len(snapshot) /\ Len(snapshot) > 0
              \/ /\ Len(prev_data) = Len(snapshot)
                 /\ \E i \in 1..Len(snapshot) :
                       prev_data[i].data.name # snapshot[i].name )

\* the monitor the projection reads, and its workspaces
C15_Monitor == proj_state.monitors.elements[proj_state.monitors.focused + 1]

C15_Workspaces == C15_Monitor.workspaces.elements

C15_FocusedSlots ==
    {i \in 1..Len(proj_result.value) : proj_result.value[i].state = "Focused"}

\* C15 as stated: every projected snapshot has exactly one Focused slot, at
\* the monitor's focused-workspace index, or none if the workspace list is
\* empty.
C15_FocusExclusivity_Stated ==
    (proj_done /\ proj_result.ok) =>
        IF Len(C15_Workspaces) = 0
        THEN C15_FocusedSlots = {}
        ELSE C15_FocusedSlots = {C15_Monitor.workspaces.focused + 1}

\* C15: every projected snapshot has exactly one Focused slot, at the
\* monitor's focused-workspace index, when that index is below the number of
\* workspaces, and no Focused slot otherwise (the empty list included); no
\* snapshot has two Focused slots.
C15_FocusExclusivity ==
    (proj_done /\ proj_result.ok) =>
        /\ Cardinality(C15_FocusedSlots) <= 1
        /\ IF C15_Monitor.workspaces.focused < Len(C15_Workspaces)
           THEN C15_FocusedSlots = {C15_Monitor.workspaces.focused + 1}
           ELSE C15_FocusedSlots = {}

\* a projected snapshot of several slots whose only Focused slot is the last
C15_Witness ==
    /\ proj_done /\ proj_result.ok
    /\ Len(proj_result.value) = MaxWs
    /\ C15_FocusedSlots = {MaxWs}
    /\ C15_Monitor.workspaces.focused = MaxWs - 1

\* C16: for a state with a focused monitor the projection returns one slot
\* per workspace of that monitor, in the daemon's order; slot i is Focused if
\* i is the focused-workspace index, otherwise Empty if the workspace holds
\* no windows, otherwise NonEmpty.
C16_ProjectionResult ==
    (proj_done /\ proj_state.monitors.focused
                      < Len(proj_state.monitors.elements)) =>
        /\ proj_result.ok
        /\ Len(proj_result.value) = Len(C15_Workspaces)
        /\ \A i \in 1..Len(C15_Workspaces) :
              /\ C15_Workspaces[i].name # None =>
                    proj_result.value[i].name = C15_Workspaces[i].name
              /\ proj_result.value[i].state =
                    CASE i - 1 = C15_Monitor.workspaces.focused -> "Focused"
                      [] i - 1 # C15_Monitor.workspaces.focused
                           /\ C15_Workspaces[i].windows = 0 -> "Empty"
                      [] OTHER -> "NonEmpty"

\* the second of two monitors is focused; its focused workspace holds no
\* windows and is Focused, beside an Empty and a NonEmpty slot
C16_Witness ==
    /\ proj_done /\ proj_result.ok
    /\ proj_state.monitors.focused = 1
    /\ \E i \in 1..Len(proj_result.value) :
          /\ proj_result.value[i].state = "Focused"
          /\ C15_Workspaces[i].windows = 0
    /\ \E i \in 1..Len(proj_result.value) :
          proj_result.value[i].state = "Empty"
    /\ \E i \in 1..Len(proj_result.value) :
          proj_result.value[i].state = "NonEmpty"

\* the decimal numerals of 1, 2, 3, ... written out
C17_Decimal ==
    <<"1", "2", "3", "4", "5", "6", "7", "8", "9", "10", "11", "12", "13">>

\* C17: in every projected snapshot the slot at 0-based index i carries the
\* name the daemon supplies, and the decimal string of i+1 when the daemon
\* supplies none.
C17_NamingFallback ==
    (proj_done /\ proj_result.ok) =>
        \A i \in 1..Len(proj_result.value) :
            proj_result.value[i].name =
                IF C15_Workspaces[i].name # None
                THEN C15_Workspaces[i].name
                ELSE C17_Decimal[i]

\* a snapshot with a daemon-supplied name, a one-digit and a two-digit
\* fallback name
C17_Witness ==
    /\ proj_done /\ proj_result.ok
    /\ Len(proj_result.value) >= 10
    /\ proj_result.value[1].name = "1"
    /\ proj_result.value[2].name = "web"
    /\ proj_result.value[10].name = "10"

\* C19: the filter judges a window-manager lifecycle event relevant iff it
\* is a cloak, an uncloak or a destroy; focus-change, hide and every other
\* lifecycle kind are irrelevant.
C19_LifecycleFilter ==
    (filt_done /\ filt_event.type = "WindowManager") =>
        /\ filt_result = \/ filt_event.kind = "Cloak"
                         \/ filt_event.kind = "Uncloak"
                         \/ filt_event.kind = "Destroy"
        /\ filt_event.kind \in {"FocusChange", "Hide", "Other"} => ~filt_result

\* a focus-change lifecycle event has been judged irrelevant
C19_Witness ==
    /\ filt_done
    /\ filt_event.type = "WindowManager"
    /\ filt_event.kind = "FocusChange"
    /\ ~filt_result

\* C25: after every try_update the model has the length of the snapshot and,
\* at every index, the snapshot's name and classification, in the equal-count
\* branch and in the replace branch.
C25_ModelEqualsSnapshot ==
    called # "none" =>
        /\ Len(self_data) = Len(snapshot)
        /\ \A i \in 1..Len(snapshot) :
              /\ self_data[i].data.name = snapshot[i].name
              /\ self_data[i].data.state = snapshot[i].state

\* an equal-count call that changed a name in one slot and a classification
\* in another
C25_Witness ==
    /\ called = "try_update"
    /\ Len(prev_data) = Len(snapshot)
    /\ \E i, j \in 1..Len(snapshot) :
          /\ i # j
          /\ prev_data[i].data.name # snapshot[i].name
          /\ prev_data[i].data.state = snapshot[i].state
          /\ prev_data[j].data.state # snapshot[j].state
          /\ prev_data[j].data.name = snapshot[j].name
          /\ self_data[i].data = snapshot[i]
          /\ self_data[j].data = snapshot[j]

\* the model before the latest call carried the snapshot of that call: the
\* call before it was given the same snapshot
C26_SameSnapshotAgain ==
    /\ called = "try_update"
    /\ Len(prev_data) = Len(snapshot)
    /\ \A i \in 1..Len(snapshot) : prev_data[i].data = snapshot[i]

\* C26: a try_update given the snapshot of the call directly before it
\* returns false and leaves every slot's name, classification, name_changed
\* and state_changed as that call left them.
C26_Idempotent ==
    C26_SameSnapshotAgain =>
        /\ returned = FALSE
        /\ Len(self_data) = Len(prev_data)
        /\ \A i \in 1..Len(prev_data) :
              /\ self_data[i].data = prev_data[i].data
              /\ self_data[i].name_changed = prev_data[i].name_changed
              /\ self_data[i].state_changed = prev_data[i].state_changed

\* a non-empty snapshot has been applied a second time
C26_Witness ==
    /\ C26_SameSnapshotAgain
    /\ Len(snapshot) = MaxSlots
    /\ returned = FALSE
    /\ self_data = prev_data

\* C21: a peer that neither sends data nor closes cannot block the session
\* forever: the read on its connection is abandoned after a bounded wait and
\* the session goes on to accept the next connection, unless the window has
\* been closed by then: run_loop then returns and the process ends
\* (main.rs:25, 40).
C21_ReadTimeout ==
    (pc = "blocked_read") ~> (pc = "accept" \/ window = "destroyed")

\* the step is the window thread handling the UpdateWorkspaces message at the
\* head of its queue
HandlesUpdate ==
    /\ Retrievable
    /\ Head(queue).msg_id = UpdateWorkspacesID
    /\ queue' = Tail(queue)

\* C22: after construction the displayed model changes only when the window
\* thread handles a delivered UpdateWorkspaces message, and then to the
\* snapshot delivered; paint, clicks, commands, setting changes, destruction
\* and every step of the session thread leave it unchanged.
C22_ModelChangesOnlyOnUpdate ==
    [][ /\ workspaces' # workspaces =>
              /\ HandlesUpdate
              /\ workspaces' = heap[Head(queue).lparam].data
        /\ sessionVars' # sessionVars => workspaces' = workspaces
        /\ ~HandlesUpdate => workspaces' = workspaces ]_vars

\* a delivered snapshot has been handled and has changed the model, the
\* window has been painted since, and a click is being handled
C22_Witness ==
    /\ lastHandled > 0
    /\ Len(workspaces) = 1
    /\ \E p \in 1..Len(heap) :
          /\ heap[p].released = 1
          /\ Len(heap[p].data) = 2
    /\ ~invalidated
    /\ consumer = "send_query"

\* C23: while the event loop runs, the window thread never performs blocking
\* I/O against the daemon: no handler, the left-click handler included,
\* issues a synchronous query or waits on the control channel.
C23_ConsumerNeverBlocksOnIO ==
    loop = "running" => consumer # "send_query"

\* C24: handling a delivered snapshot requests a repaint only when the
\* snapshot differs from the displayed model: one equal to it in slot count,
\* names and classifications causes no request, one that differs in any slot
\* causes one.
C24_RepaintOnlyOnChange ==
    [][ HandlesUpdate =>
          IF heap[Head(queue).lparam].data = workspaces
          THEN invalidated' = invalidated
          ELSE invalidated' ]_vars

\* the results the startup query of Window::new can give
C27_Startup ==
    {workspaces_from_state(s).value :
        s \in {t \in SessionStates : workspaces_from_state(t).ok}}

\* the boxes whose message was posted successfully
C27_Posted == {p \in 1..Len(heap) : heap[p].posted}

\* the successfully posted box made last
C27_LastPosted == CHOOSE p \in C27_Posted : \A q \in C27_Posted : q <= p

\* C27: the displayed model is always the startup query result or the
\* snapshot of an earlier successfully posted message, and once every posted
\* UpdateWorkspaces message has been handled it is the snapshot of the most
\* recent relevant notification that was successfully posted.
C27_MirrorConverges ==
    /\ IF lastHandled = 0
       THEN workspaces \in C27_Startup
       ELSE \E p \in C27_Posted :
               /\ heap[p].released >= 1
               /\ heap[p].conn = lastHandled
               /\ heap[p].data = workspaces
    /\ (C27_Posted # {} /\ \A p \in C27_Posted : heap[p].released >= 1) =>
          /\ workspaces = heap[C27_LastPosted].data
          /\ lastHandled = heap[C27_LastPosted].conn

\* two different snapshots were posted and both have been handled: the model
\* is the second
C27_Witness ==
    /\ queue = <<>>
    /\ \E p, q \in C27_Posted :
          /\ p < q
          /\ q = C27_LastPosted
          /\ heap[p].released = 1 /\ heap[q].released = 1
          /\ heap[p].data # heap[q].data
          /\ workspaces = heap[q].data

\* C28: an accept failure produces no delivery and is handled by its error
\* code: on OS error 109 the session accepts nothing until the subscribe
\* command has exited successfully, running it again after every unsuccessful
\* exit; on any other accept failure it goes straight on to the next
\* connection; in both cases it stays Listening.
C28_AcceptFailureByCode ==
    [][ /\ (pc = "accept" /\ sessionVars' # sessionVars
                          /\ last' # "accept_ok") =>
              /\ nposts' = nposts /\ heap' = heap /\ queue' = queue
              /\ nrecv' = nrecv
              /\ SessionState' = "Listening"
              /\ IF last' = "accept_err_109"
                 THEN pc' = "resubscribe"
                 ELSE pc' = "accept"
        /\ (pc = "resubscribe" /\ sessionVars' # sessionVars) =>
              /\ nposts' = nposts /\ heap' = heap /\ queue' = queue
              /\ nrecv' = nrecv
              /\ SessionState' = "Listening"
              /\ IF last' = "cmd_exit_ok"
                 THEN pc' = "accept"
                 ELSE pc' = "resubscribe" ]_vars

====
